---- MODULE Spec2Model ----
(***************************************************************************)
(* TechShoulders: the graph-neighborhood utilities of src/lib/graph.ts.    *)
(*                                                                         *)
(* A caller holds an edge list and a node id and calls getNeighborhood     *)
(* (bounded breadth-first search) or getDirectNeighbors (one pass).  The   *)
(* search is modelled one iteration of its while loop at a time; the same  *)
(* loop body is also available as the operator getNeighborhood, so that a  *)
(* call on other inputs can be compared with the call being run.           *)
(*                                                                         *)
(* Around them: the one-hop sets MiniGraph and buildNodeNeighborhoodData    *)
(* compute for themselves; the two InfluenceGraph components, as their      *)
(* React state and the elements their effect renders after each event; and *)
(* the content validator next to loadAllEdges, run over the same content.  *)
(***************************************************************************)
EXTENDS Integers, Sequences, FiniteSets, TLC

\* ------------------------------------------------------------------ inputs

\* Longest enumerated edge list, and largest depth a caller passes.
MaxEdges == 2
MaxDepth == 3

\* Ids that have a node record (the ids of the test's sample graph), and one
\* id, "z", that has none: as an edge endpoint it is a dangling reference.
NodeIds == {"a", "b", "c", "d", "e"}
Ids == NodeIds \cup {"z"}

\* The ids the enumerated edge lists and start ids are drawn from.
SmallIds == {"a", "b", "z"}

\* GraphEdge.kind
Kinds == {"influence", "affiliation"}

\* An absent optional field (label?: string, year?: number).
NoLabel == "undefined"
NoYear == -1

\* GraphEdge
Edge(s, t, k, l) == [source |-> s, target |-> t, kind |-> k, label |-> l, year |-> NoYear]

SmallEdges == {Edge(s, t, k, NoLabel) : s \in SmallIds, t \in SmallIds, k \in Kinds}

EdgeLists == UNION {[1..n -> SmallEdges] : n \in 0..MaxEdges}

\* The edge lists of the unit tests: A -> B -> C -> D plus A -> E, and the
\* cycle A -> B -> C -> A.
sampleEdges ==
  << Edge("a", "b", "influence", "created"),
     Edge("b", "c", "influence", "influenced"),
     Edge("c", "d", "affiliation", "worked at"),
     Edge("a", "e", "influence", "invented") >>

cyclicEdges ==
  << Edge("a", "b", "influence", NoLabel),
     Edge("b", "c", "influence", NoLabel),
     Edge("c", "a", "influence", NoLabel) >>

\* ------------------------------------------------------- getNeighborhood

\* Faults of the depth test: one level too many, stopping on the level before
\* the limit only, and refusing to expand an id without a node record.
AtDepthLimit_OffByOne(item, depth) == item.d > depth
AtDepthLimit_LevelBefore(item, depth) == item.d + 1 = depth
AtDepthLimit_OrDangling(item, depth) == item.d >= depth \/ item.id \notin NodeIds

\* if (!item || item.d >= depth) continue;
\* (the queue holds objects only, so !item is false for a shifted item)
AtDepthLimit(item, depth) == item.d >= depth

\* Fault: the pushed depth is not incremented.
ChildDepth_NotIncremented(item) == item.d

\* d: item.d + 1
ChildDepth(item) == item.d + 1

\* Faults of the outgoing test: no visited check, only influence edges, and
\* no test of the edge's source.
Outgoing_NoVisitedCheck(edge, item, vis) == edge.source = item.id
Outgoing_InfluenceOnly(edge, item, vis) ==
  edge.kind = "influence" /\ edge.source = item.id /\ edge.target \notin vis
Outgoing_AnySource(edge, item, vis) == edge.target \notin vis

\* edge.source === item.id && !visited.has(edge.target)
Outgoing(edge, item, vis) == edge.source = item.id /\ edge.target \notin vis

\* Faults of the incoming test: left out (a directed traversal), and taking
\* only sources that have a node record.
Incoming_Omitted(edge, item, vis) == FALSE
Incoming_KnownOnly(edge, item, vis) ==
  edge.target = item.id /\ edge.source \in NodeIds /\ edge.source \notin vis

\* edge.target === item.id && !visited.has(edge.source)
Incoming(edge, item, vis) == edge.target = item.id /\ edge.source \notin vis

\* Fault: a break after the first edge that adds an id.
RECURSIVE ForEdges_StopAtFirst(_, _, _, _, _)
ForEdges_StopAtFirst(item, es, i, vis, q) ==
  IF i > Len(es) THEN [visited |-> vis, queue |-> q, last |-> i - 1]
  ELSE LET edge == es[i]
           out  == Outgoing(edge, item, vis)
           vis1 == IF out THEN vis \cup {edge.target} ELSE vis
           q1   == IF out THEN Append(q, [id |-> edge.target, d |-> ChildDepth(item)]) ELSE q
           inc  == Incoming(edge, item, vis1)
           vis2 == IF inc THEN vis1 \cup {edge.source} ELSE vis1
           q2   == IF inc THEN Append(q1, [id |-> edge.source, d |-> ChildDepth(item)]) ELSE q1
       IN IF out \/ inc THEN [visited |-> vis2, queue |-> q2, last |-> i]
          ELSE ForEdges_StopAtFirst(item, es, i + 1, vis2, q2)

\* The for loop over the edges, from edge i on: the two ifs of its body run
\* in order, the second one seeing what the first one added.  last is the
\* position of the last edge the loop looked at: it has no break, so it
\* looks at every edge.
RECURSIVE ForEdges(_, _, _, _, _)
ForEdges(item, es, i, vis, q) ==
  IF i > Len(es) THEN [visited |-> vis, queue |-> q, last |-> i - 1]
  ELSE LET edge == es[i]
           out  == Outgoing(edge, item, vis)
           vis1 == IF out THEN vis \cup {edge.target} ELSE vis
           q1   == IF out THEN Append(q, [id |-> edge.target, d |-> ChildDepth(item)]) ELSE q
           inc  == Incoming(edge, item, vis1)
           vis2 == IF inc THEN vis1 \cup {edge.source} ELSE vis1
           q2   == IF inc THEN Append(q1, [id |-> edge.source, d |-> ChildDepth(item)]) ELSE q1
       IN ForEdges(item, es, i + 1, vis2, q2)

\* const visited = new Set([nodeId]); const queue = [{ id: nodeId, d: 0 }];
SeedVisited(id) == {id}
SeedQueue(id) == << [id |-> id, d |-> 0] >>

\* One iteration of the while loop: shift the oldest item, and unless it is
\* at the depth limit scan the edges for it.
WhileBody(depth, es, vis, q) ==
  LET item == Head(q)
  IN IF AtDepthLimit(item, depth)
       THEN [visited |-> vis, queue |-> Tail(q), last |-> 0]
       ELSE ForEdges(item, es, 1, vis, Tail(q))

\* while (queue.length > 0) { ... } return visited;
RECURSIVE WhileLoop(_, _, _, _)
WhileLoop(depth, es, vis, q) ==
  IF Len(q) = 0 THEN vis
  ELSE LET s == WhileBody(depth, es, vis, q)
       IN WhileLoop(depth, es, s.visited, s.queue)

getNeighborhood(id, depth, es) == WhileLoop(depth, es, SeedVisited(id), SeedQueue(id))

\* ---------------------------------------------------- getDirectNeighbors

\* Fault: only the outgoing edges are followed.
AddNeighbors_OutgoingOnly(id, edge, nb) ==
  IF edge.source = id THEN nb \cup {edge.target} ELSE nb

\* The body of the for loop of getDirectNeighbors.
AddNeighbors(id, edge, nb) ==
  LET nb1 == IF edge.source = id THEN nb \cup {edge.target} ELSE nb
  IN IF edge.target = id THEN nb1 \cup {edge.source} ELSE nb1

RECURSIVE DirectLoop(_, _, _, _)
DirectLoop(id, es, i, nb) ==
  IF i > Len(es) THEN nb
  ELSE DirectLoop(id, es, i + 1, AddNeighbors(id, es[i], nb))

getDirectNeighbors(id, es) == DirectLoop(id, es, 1, {id})

\* ------------------------------------- the one-hop sets computed elsewhere

\* Fault: the MiniGraph loop adds only the targets of outgoing edges.
MiniGraph_Add_TargetsOnly(id, edge, vis) ==
  IF edge.source = id THEN vis \cup {edge.target} ELSE vis

\* MiniGraph's own getNeighborhood: the body of its for loop,
\* if (edge.source === nodeId) visited.add(edge.target);
\* if (edge.target === nodeId) visited.add(edge.source);
MiniGraph_Add(id, edge, vis) ==
  LET vis1 == IF edge.source = id THEN vis \cup {edge.target} ELSE vis
  IN IF edge.target = id THEN vis1 \cup {edge.source} ELSE vis1

RECURSIVE MiniGraph_Loop(_, _, _, _)
MiniGraph_Loop(id, edgeList, i, vis) ==
  IF i > Len(edgeList) THEN vis
  ELSE MiniGraph_Loop(id, edgeList, i + 1, MiniGraph_Add(id, edgeList[i], vis))

\* const visited = new Set([nodeId]); for (...) {...}; return visited;
MiniGraph_getNeighborhood(id, edgeList) == MiniGraph_Loop(id, edgeList, 1, {id})

\* buildNodeNeighborhoodData:
\* allEdges.filter(edge => edge.source === nodeId || edge.target === nodeId)
IsConnectedEdge(edge, id) == edge.source = id \/ edge.target = id

connectedEdges(id, allEdges) == SelectSeq(allEdges, LAMBDA edge : IsConnectedEdge(edge, id))

\* neighborIds = new Set([nodeId]); for each connected edge, add its source
\* and its target.
RECURSIVE NeighborIdsLoop(_, _, _)
NeighborIdsLoop(conn, i, nb) ==
  IF i > Len(conn) THEN nb
  ELSE NeighborIdsLoop(conn, i + 1, nb \cup {conn[i].source, conn[i].target})

neighborIds(id, allEdges) == NeighborIdsLoop(connectedEdges(id, allEdges), 1, {id})

\* ------------------------------------------------------------------- state

VARIABLES
  edges,      \* the edge array: the caller's argument, the viewer's prop
  nodeId,     \* the caller's node id
  pc,         \* "idle", "loop" (inside getNeighborhood), "done", "doneDirect",
              \* "doneMini", "doneData"
  depth,      \* the depth argument of the running getNeighborhood call
  visited,    \* getNeighborhood's visited set
  queue,      \* getNeighborhood's queue
  result,     \* the set the last call returned
  enqueued,   \* how often each id has been put on the queue in this call
  expanded,   \* how often the edges have been scanned for each id in this call
  inspections,\* how often each position of the edge array has been looked at
              \* in this call
  version,    \* which InfluenceGraph component is mounted, "none" if none
  nodes,      \* the viewer's nodes prop, as the set of its ids
  includeAffiliations, focusedNode, focusDepth,  \* the viewer's React state
  elements,   \* what the viewer's last render handed to cytoscape
  handed,     \* the edge lists the last render passed to getNeighborhood
  pristine,   \* no event has reached the viewer since it was mounted
  content,    \* the content collections
  errors, warnings, status,  \* the validator's lists and its verdict
  site,       \* what the site build loaded from the content
  searchIndex,\* the node array the site build made from the content
  edgeLabel,  \* the label a caller of getEdgeKind holds
  edgeKind,   \* what getEdgeKind returned for it, "none" before the call
  consoleWarnings, \* the labels console.warn has been called for
  value,      \* EraSlider's value prop, the range its parent holds
  localValue, \* EraSlider's local range
  timers,     \* the timeouts handleChange has set and that have not fired
  calls,      \* the onChange calls made so far, each with the latest change
              \* at the time of the call
  lastChange, \* the range of the latest handleChange
  sinceChange,\* the time since the latest handleChange, up to the delay
  changes,    \* how many times handleChange has run
  bursts,     \* how many of them came a full delay or more after the one before
  clickTimeout, \* the tap handler's pending timeout, with the node it is for
  selectedEdge, \* the edge whose explanation panel is shown
  navigation,   \* the assignment to window.location.href, once made, with
                \* the node of the pending timeout and the time since it was set
  savedFilters,   \* the array stored under STORAGE_KEY
  filtersSaved,   \* how many times saveFilter has run
  filtersUpdated, \* how many times updateFilter has changed an entry
  cardIds,      \* PackProgress's cardIds prop
  packProgress, \* the entry stored for the pack under STORAGE_KEY
  readCards,    \* PackProgress's set of read cards
  mounted       \* whether PackProgress's effect has run

graphVars ==
  << nodeId, pc, depth, visited, queue, result, enqueued, expanded, inspections >>

viewerVars ==
  << version, nodes, includeAffiliations, focusedNode, focusDepth, elements, handed,
     pristine >>

validatorVars == << content, errors, warnings, status, site, searchIndex >>

classifyVars == << edgeLabel, edgeKind, consoleWarnings >>

sliderVars ==
  << value, localValue, timers, calls, lastChange, sinceChange, changes, bursts >>

tapVars == << clickTimeout, selectedEdge, navigation >>

filterVars == << savedFilters, filtersSaved, filtersUpdated >>

progressVars == << cardIds, packProgress, readCards, mounted >>

utilVars == << classifyVars, sliderVars, tapVars, filterVars, progressVars >>

vars == << edges, graphVars, viewerVars, validatorVars, utilVars >>

NoCounts == [x \in Ids |-> 0]

NoInspections(es) == [i \in 1..Len(es) |-> 0]

Idle(es, id) ==
  /\ edges = es
  /\ nodeId = id
  /\ pc = "idle"
  /\ depth = 0
  /\ visited = {}
  /\ queue = << >>
  /\ result = {}
  /\ enqueued = NoCounts
  /\ expanded = NoCounts
  /\ inspections = NoInspections(es)

\* --------------------------------------------------- the InfluenceGraph viewer

\* GRAPH_CONFIG.FOCUS_DEPTH
FOCUS_DEPTH_MIN == 1
FOCUS_DEPTH_MAX == 3
FOCUS_DEPTH_DEFAULT == 1

\* The two InfluenceGraph components of the repository: "basic" is
\* src/components/InfluenceGraph.tsx (a checkbox, no focus mode), "focus" is
\* the component with search, focus mode and a depth select.
Versions == {"basic", "focus"}

\* useState<string | null>(null)
NoFocus == "null"

\* useState(true) in the basic component, useState(false) in the focus one.
InitialAffiliations(v) == v = "basic"

\* useState(1)
InitialFocusDepth == 1

\* Fault: the depth select offers 0 hops as well.
DepthOptions_WithZero == {0, 1, 2, 3}

\* <option value={1}>, <option value={2}>, <option value={3}>
DepthOptions == {1, 2, 3}

\* The focus component's own getNeighborhood (a useCallback): the for loop,
\* the while loop and the seeds.
RECURSIVE IG_ForEdges(_, _, _, _, _, _)
IG_ForEdges(id, d, edgeList, i, vis, q) ==
  IF i > Len(edgeList) THEN [visited |-> vis, queue |-> q]
  ELSE LET edge == edgeList[i]
           out  == edge.source = id /\ edge.target \notin vis
           vis1 == IF out THEN vis \cup {edge.target} ELSE vis
           q1   == IF out THEN Append(q, [id |-> edge.target, d |-> d + 1]) ELSE q
           inc  == edge.target = id /\ edge.source \notin vis1
           vis2 == IF inc THEN vis1 \cup {edge.source} ELSE vis1
           q2   == IF inc THEN Append(q1, [id |-> edge.source, d |-> d + 1]) ELSE q1
       IN IG_ForEdges(id, d, edgeList, i + 1, vis2, q2)

RECURSIVE IG_WhileLoop(_, _, _, _)
IG_WhileLoop(dep, edgeList, vis, q) ==
  IF Len(q) = 0 THEN vis
  ELSE LET item == Head(q)
           s == IF item.d >= dep
                  THEN [visited |-> vis, queue |-> Tail(q)]
                  ELSE IG_ForEdges(item.id, item.d, edgeList, 1, vis, Tail(q))
       IN IG_WhileLoop(dep, edgeList, s.visited, s.queue)

\* Fault: the start id is queued as if it were one hop away already.
IG_getNeighborhood_SeedDepthOne(id, dep, edgeList) ==
  IG_WhileLoop(dep, edgeList, {id}, << [id |-> id, d |-> 1] >>)

IG_getNeighborhood(id, dep, edgeList) ==
  IG_WhileLoop(dep, edgeList, {id}, << [id |-> id, d |-> 0] >>)

\* Fault: the edges are not filtered by kind.
filteredEdges_Unfiltered(incl, es) == es

\* includeAffiliations ? edges : edges.filter(e => e.kind === 'influence')
filteredEdges(incl, es) ==
  IF incl THEN es ELSE SelectSeq(es, LAMBDA e : e.kind = "influence")

\* for (const edge of filteredEdges) { add edge.source; add edge.target }
connectedNodeIds(fe) ==
  {fe[i].source : i \in 1..Len(fe)} \cup {fe[i].target : i \in 1..Len(fe)}

\* Fault: the neighborhood filter is never applied.
FocusApplies_Never(foc, conn) == FALSE

\* if (focusedNode && connectedNodeIds.has(focusedNode))
FocusApplies(foc, conn) == foc # NoFocus /\ foc \in conn

\* The effect of the focus component, up to the elements array: the ids of
\* the node elements, the edge elements, and the edge lists it passed to
\* getNeighborhood (none or one).
RenderFocus(ns, es, incl, foc, dep) ==
  LET fe   == filteredEdges(incl, es)
      conn == connectedNodeIds(fe)
      fn0  == {n \in ns : n \in conn}
      app  == FocusApplies(foc, conn)
      fn   == IF app THEN {n \in fn0 : n \in IG_getNeighborhood(foc, dep, fe)} ELSE fn0
      visibleEdges == SelectSeq(fe, LAMBDA e : e.source \in fn /\ e.target \in fn)
  IN [elements |-> [nodes |-> fn, edges |-> visibleEdges],
      handed |-> IF app THEN << fe >> ELSE << >>]

\* The effect of the basic component: every filtered edge becomes an element.
RenderBasic(ns, es, incl) ==
  LET fe   == filteredEdges(incl, es)
      conn == connectedNodeIds(fe)
  IN [elements |-> [nodes |-> {n \in ns : n \in conn}, edges |-> fe],
      handed |-> << >>]

Render(v, ns, es, incl, foc, dep) ==
  IF v = "basic" THEN RenderBasic(ns, es, incl) ELSE RenderFocus(ns, es, incl, foc, dep)

\* No viewer is mounted.
Unmounted ==
  /\ version = "none"
  /\ nodes = {}
  /\ includeAffiliations = FALSE
  /\ focusedNode = NoFocus
  /\ focusDepth = InitialFocusDepth
  /\ elements = [nodes |-> {}, edges |-> << >>]
  /\ handed = << >>
  /\ pristine = TRUE

\* Component v has been mounted with the props ns and the edge array, and
\* its effect has run once.
Mounted(v, ns) ==
  /\ version = v
  /\ nodes = ns
  /\ includeAffiliations = InitialAffiliations(v)
  /\ focusedNode = NoFocus
  /\ focusDepth = InitialFocusDepth
  /\ LET r == Render(v, ns, edges, InitialAffiliations(v), NoFocus, InitialFocusDepth)
     IN elements = r.elements /\ handed = r.handed
  /\ pristine = TRUE

\* ------------------------------------- content, validator and site loader

\* Most inline edges an enumerated content file declares.
MaxFileEdges == 1

\* The ids enumerated node files carry, and the id of the enumerated pack.
FileIds == {"a", "b"}
PackIds == {"p"}

\* An inline edge of a file's frontmatter: { target, kind, label? }.
InlineEdge(t) == [target |-> t, kind |-> "influence", label |-> NoLabel]

InlineEdgeLists == UNION {[1..n -> {InlineEdge(t) : t \in SmallIds}] : n \in 0..MaxFileEdges}

\* A content file whose frontmatter parses, fits its schema and carries the
\* id its file name has.  Only a pack has cards, and its schema wants one.
FilesOf(ids, cardLists) ==
  {[id |-> i, cards |-> cs, edges |-> es] : i \in ids, cs \in cardLists, es \in InlineEdgeLists}

\* A collection directory: no file, or one.
DirsOf(ids, cardLists) == {<< >>} \cup {<< f >> : f \in FilesOf(ids, cardLists)}

NodeDirs == DirsOf(FileIds, {<< >>})

PackDirs == DirsOf(PackIds, {<< "a" >>, << "z" >>})

Contents == [people : NodeDirs, works : NodeDirs, institutions : NodeDirs, packs : PackDirs]

EmptyContent == [people |-> << >>, works |-> << >>, institutions |-> << >>, packs |-> << >>]

\* The files of the directories dirs of content c, in order.
RECURSIVE FilesIn(_, _)
FilesIn(c, dirs) ==
  IF dirs = << >> THEN << >> ELSE c[Head(dirs)] \o FilesIn(c, Tail(dirs))

\* { source: <the declaring entry's id>, target: edge.target, kind, label }
DeclaredEdges(file) ==
  [i \in 1..Len(file.edges) |->
     Edge(file.id, file.edges[i].target, file.edges[i].kind, file.edges[i].label)]

RECURSIVE EdgesOfFiles(_)
EdgesOfFiles(files) ==
  IF files = << >> THEN << >> ELSE DeclaredEdges(Head(files)) \o EdgesOfFiles(Tail(files))

\* collectNodesAndEdges: the ids and the edges of people, works, institutions.
NodeCollections == << "people", "works", "institutions" >>

collectNodeIds(c) ==
  LET files == FilesIn(c, NodeCollections) IN {files[i].id : i \in 1..Len(files)}

collectAllEdges(c) == EdgesOfFiles(FilesIn(c, NodeCollections))

\* validateInlineEdges: an error for every edge whose target is not a node id.
validateInlineEdges(file, nodeIds) ==
  LET bad == {i \in 1..Len(file.edges) : file.edges[i].target \notin nodeIds}
  IN SelectSeq([i \in 1..Len(file.edges) |-> [file |-> file.id, edge |-> i]],
               LAMBDA m : m.edge \in bad)

\* validatePackCards: an error for every card that is not a node id.
validatePackCards(file, nodeIds) ==
  LET bad == {i \in 1..Len(file.cards) : file.cards[i] \notin nodeIds}
  IN SelectSeq([i \in 1..Len(file.cards) |-> [file |-> file.id, card |-> i]],
               LAMBDA m : m.card \in bad)

\* The checks validate() runs on the files of one directory.
RECURSIVE validateFiles(_, _, _)
validateFiles(files, isPack, nodeIds) ==
  IF files = << >> THEN << >>
  ELSE (IF isPack THEN validatePackCards(Head(files), nodeIds) ELSE << >>)
       \o validateInlineEdges(Head(files), nodeIds)
       \o validateFiles(Tail(files), isPack, nodeIds)

\* checkOrphanedNodes: the node ids that are an endpoint of no edge.
checkOrphanedNodes(nodeIds, es) ==
  {n \in nodeIds : n \notin ({es[i].source : i \in 1..Len(es)} \cup {es[i].target : i \in 1..Len(es)})}

\* Fault: a run with warnings fails as well.
Verdict_WarningsFail(errs, warns) ==
  IF Len(errs) > 0 \/ warns # {} THEN "FAILED" ELSE "PASSED"

\* if (errors.length > 0) { ... 'Validation FAILED' ...; process.exit(1) }
\* 'Validation PASSED'; process.exit(0)
Verdict(errs, warns) == IF Len(errs) > 0 THEN "FAILED" ELSE "PASSED"

\* The exit status that goes with a verdict.
ExitStatus(verdict) == IF verdict = "FAILED" THEN 1 ELSE 0

\* validate(): people, works, institutions and packs are checked in turn.
validate(c) ==
  LET nodeIds == collectNodeIds(c)
      errs == validateFiles(FilesIn(c, NodeCollections), FALSE, nodeIds)
              \o validateFiles(c.packs, TRUE, nodeIds)
      orphaned == checkOrphanedNodes(nodeIds, collectAllEdges(c))
  IN [errors |-> errs,
      warnings |-> orphaned,
      status |-> Verdict(errs, orphaned)]

\* loadAllEdges: the edges of people, works, institutions and packs.
LoadedCollections == << "people", "works", "institutions", "packs" >>

loadAllEdges(c) == EdgesOfFiles(FilesIn(c, LoadedCollections))

\* buildSearchIndex: for (const entry of <collection>) nodes.push({ id:
\* entry.data.id, ..., kind: '<collection>', ... })
PushNodes(acc, files, kind) ==
  acc \o [i \in 1..Len(files) |-> [id |-> files[i].id, kind |-> kind]]

\* buildSearchIndex: people, then works, then institutions.
buildSearchIndex(c) ==
  PushNodes(PushNodes(PushNodes(<< >>, c.people, "people"), c.works, "works"),
            c.institutions, "institutions")

\* The validator has not run and the site has not been built.
NotRun(c) ==
  /\ content = c
  /\ errors = << >>
  /\ warnings = {}
  /\ status = "none"
  /\ site = [built |-> FALSE, allEdges |-> << >>]
  /\ searchIndex = [built |-> FALSE, nodes |-> << >>]

NoContent == NotRun(EmptyContent)

\* ------------------------------------------------------ edge classification

STRONG_EDGE_LABELS ==
  << "created", "invented", "influenced", "inspired", "built_on", "popularized",
     "standardized" >>

WEAK_EDGE_LABELS ==
  << "studied at", "worked at", "professor at", "fellow at", "founded", "funded_by" >>

\* Array.prototype.includes on an array of strings: strict equality.
Includes(arr, x) == \E i \in 1..Len(arr) : arr[i] = x

\* Labels that are in neither array: the unknown labels of the tests, the
\* empty string, wrong-case variants and the names of the kinds themselves.
UnknownLabels ==
  {"", "unknown_label", "random", "INFLUENCE", "Created", "Worked At", "affiliation"}

Labels ==
  {STRONG_EDGE_LABELS[i] : i \in 1..Len(STRONG_EDGE_LABELS)}
    \cup {WEAK_EDGE_LABELS[i] : i \in 1..Len(WEAK_EDGE_LABELS)}
    \cup UnknownLabels

\* Fault: an unknown label is taken for an affiliation.
DefaultKind_Affiliation == "affiliation"

\* // Default to influence for unknown labels (conservative)
DefaultKind == "influence"

\* getEdgeKind: the kind it returns, and whether it warns on the way.
getEdgeKind(l) ==
  IF Includes(STRONG_EDGE_LABELS, l) THEN [kind |-> "influence", warns |-> FALSE]
  ELSE IF Includes(WEAK_EDGE_LABELS, l) THEN [kind |-> "affiliation", warns |-> FALSE]
  ELSE [kind |-> DefaultKind, warns |-> TRUE]

\* A caller holds the label l, and nothing has been classified or logged.
HoldsLabel(l) ==
  /\ edgeLabel = l
  /\ edgeKind = "none"
  /\ consoleWarnings = {}

ClassifyOff == HoldsLabel("")

\* ---------------------------------------------------------------- EraSlider

\* Most handleChange calls in a run.
MaxChanges == 3

\* The props minYear and maxYear.
minYear == 1
maxYear == 3

\* setTimeout(() => { onChange(newValue); }, 150)
DEBOUNCE_MS == 150

\* The step of the clock.
TickMs == DEBOUNCE_MS \div 3

\* [number, number]
Range(lo, hi) == << lo, hi >>

WellFormed(r) == minYear <= r[1] /\ r[1] <= r[2] /\ r[2] <= maxYear

WellFormedRanges == {r \in (minYear..maxYear) \X (minYear..maxYear) : WellFormed(r)}

\* What a range input can report: it has min={minYear} and max={maxYear}.
SliderValues == minYear..maxYear

\* What parseInt makes of what is typed in a number input: NaN, or any number.
TypedValues ==
  {[nan |-> TRUE, n |-> 0]} \cup {[nan |-> FALSE, n |-> v] : v \in (minYear - 1)..(maxYear + 1)}

\* Fault: the min slider is not held below the max.
MinChangeAccepted_Always(newMin, local) == TRUE

\* handleMinChange: if (newMin <= localValue[1])
MinChangeAccepted(newMin, local) == newMin <= local[2]

\* handleMaxChange: if (newMax >= localValue[0])
MaxChangeAccepted(newMax, local) == newMax >= local[1]

\* if (!isNaN(newMin) && newMin >= minYear && newMin <= localValue[1])
MinInputAccepted(t, local) == ~t.nan /\ t.n >= minYear /\ t.n <= local[2]

\* if (!isNaN(newMax) && newMax >= localValue[0] && newMax <= maxYear)
MaxInputAccepted(t, local) == ~t.nan /\ t.n >= local[1] /\ t.n <= maxYear

\* EraSlider is mounted with the value prop v: useState(value).
SliderMounted(v) ==
  /\ value = v
  /\ localValue = v
  /\ timers = << >>
  /\ calls = << >>
  /\ lastChange = v
  /\ sinceChange = DEBOUNCE_MS
  /\ changes = 0
  /\ bursts = 0

SliderOff == SliderMounted(Range(minYear, maxYear))

\* ------------------------------------------------- InfluenceGraph: taps

\* GRAPH_CONFIG.TIMING.DOUBLE_CLICK_DELAY, the delay of the tap handler
DOUBLE_CLICK_DELAY == 250

\* The step of the clock.
TapTickMs == DOUBLE_CLICK_DELAY \div 2

\* let clickTimeout = null
NoTimeout == [set |-> FALSE, node |-> NoFocus, left |-> 0]

\* useState(null) of selectedEdge
NoEdge == [sourceId |-> NoFocus, targetId |-> NoFocus]

\* window.location.href has not been assigned.
NoNavigation == [to |-> NoFocus, first |-> NoFocus, gap |-> 0]

TapOff ==
  /\ clickTimeout = NoTimeout
  /\ selectedEdge = NoEdge
  /\ navigation = NoNavigation

\* ------------------------------------------------------------ saved filters

MAX_SAVED_FILTERS == 10

\* Most saveFilter calls, and most updateFilter calls that change an entry,
\* in a run.
MaxSaves == 11
MaxUpdates == 1

\* The names a filter is saved under or renamed to.
FilterNames == {"saved", "renamed"}

\* newFilter: the ids generateId returns are told apart by the order in
\* which they were generated.
NewFilter(n, name) == [id |-> n, name |-> name]

\* Fault: the list is not cut.
Truncate_Unbounded(list) == list

\* if (updated.length > MAX_SAVED_FILTERS) updated.splice(MAX_SAVED_FILTERS)
Truncate(list) ==
  IF Len(list) > MAX_SAVED_FILTERS THEN SubSeq(list, 1, MAX_SAVED_FILTERS) ELSE list

\* [newFilter, ...savedFilters], cut to the limit
WithNewFilter(newFilter, list) == Truncate(<< newFilter >> \o list)

\* savedFilters.filter((f) => f.id !== id)
WithoutFilter(id, list) == SelectSeq(list, LAMBDA f : f.id # id)

\* savedFilters.findIndex((f) => f.id === id), 0 for -1
FindIndex(id, list) ==
  IF \E i \in 1..Len(list) : list[i].id = id
  THEN CHOOSE i \in 1..Len(list) :
         /\ list[i].id = id
         /\ \A j \in 1..(i - 1) : list[j].id # id
  ELSE 0

\* Empty storage.
FiltersOff ==
  /\ savedFilters = << >>
  /\ filtersSaved = 0
  /\ filtersUpdated = 0

\* ------------------------------------------------------------- PackProgress

\* The cards of the pack, and a card id the pack had when progress was
\* stored and no longer has.
PackCardIds == {"c1", "c2"}
RetiredCardIds == {"c0"}

\* The cardIds props: a pack has at least one card.
CardIdLists == {<< "c1" >>, << "c1", "c2" >>, << "c2", "c1" >>}

\* What can be stored for a pack: { [cardId: string]: boolean }, or nothing.
StoredProgress ==
  UNION {[S -> BOOLEAN] : S \in SUBSET (PackCardIds \cup RetiredCardIds)}

\* new Set(Object.keys(packProgress).filter(id => packProgress[id]))
ReadIn(stored) == {id \in DOMAIN stored : stored[id]}

\* progress[packId][cardId] = !isRead
WithCard(stored, cardId, isRead) ==
  [id \in DOMAIN stored \cup {cardId} |-> IF id = cardId THEN isRead ELSE stored[id]]

\* Math.round(n / d * 100) for n >= 0 and d > 0
RoundPercent(n, d) == (200 * n + d) \div (2 * d)

completedCount == Cardinality(readCards)

totalCount == Len(cardIds)

progressPercent == IF totalCount > 0 THEN RoundPercent(completedCount, totalCount) ELSE 0

\* PackProgress is rendered with the props ids, over the stored progress
\* stored, and its effect has not run: useState(new Set()), useState(false).
ProgressRendered(ids, stored) ==
  /\ cardIds = ids
  /\ packProgress = stored
  /\ readCards = {}
  /\ mounted = FALSE

ProgressOff == ProgressRendered(<< >>, << >>)

UtilOff == ClassifyOff /\ SliderOff /\ TapOff /\ FiltersOff /\ ProgressOff

Init ==
  /\ \/ \E es \in EdgeLists, id \in SmallIds : Idle(es, id)
     \/ \E es \in {sampleEdges, cyclicEdges}, id \in Ids : Idle(es, id)
  /\ Unmounted
  /\ NoContent
  /\ UtilOff

\* Fault: the visited set lives outside the function and is kept from one
\* call to the next.
CallNeighborhood_SharedVisited ==
  /\ pc = "idle"
  /\ \E d \in 0..MaxDepth :
       /\ depth' = d
       /\ visited' = visited \cup SeedVisited(nodeId)
       /\ queue' = SeedQueue(nodeId)
       /\ enqueued' = [NoCounts EXCEPT ![nodeId] = 1]
       /\ expanded' = NoCounts
       /\ inspections' = NoInspections(edges)
  /\ pc' = "loop"
  /\ UNCHANGED << edges, nodeId, result, viewerVars, validatorVars, utilVars >>

\* getNeighborhood(nodeId, d, edges) is entered: lines 25-26 make a new
\* visited set and a new queue, whatever an earlier call left behind.
CallNeighborhood ==
  /\ pc = "idle"
  /\ \E d \in 0..MaxDepth :
       /\ depth' = d
       /\ visited' = SeedVisited(nodeId)
       /\ queue' = SeedQueue(nodeId)
       /\ enqueued' = [NoCounts EXCEPT ![nodeId] = 1]
       /\ expanded' = NoCounts
       /\ inspections' = NoInspections(edges)
  /\ pc' = "loop"
  /\ UNCHANGED << edges, nodeId, result, viewerVars, validatorVars, utilVars >>

\* An iteration of the while loop whose item is at the depth limit.
Skip ==
  /\ pc = "loop"
  /\ Len(queue) > 0
  /\ AtDepthLimit(Head(queue), depth)
  /\ LET s == WhileBody(depth, edges, visited, queue)
     IN /\ visited' = s.visited
        /\ queue' = s.queue
  /\ UNCHANGED << edges, nodeId, pc, depth, result, enqueued, expanded, inspections >>
  /\ UNCHANGED << viewerVars, validatorVars, utilVars >>

\* An iteration of the while loop that scans the edges for its item.
Expand ==
  /\ pc = "loop"
  /\ Len(queue) > 0
  /\ ~AtDepthLimit(Head(queue), depth)
  /\ LET s == WhileBody(depth, edges, visited, queue)
     IN /\ visited' = s.visited
        /\ queue' = s.queue
        \* what the iteration pushed sits behind the old queue's tail
        /\ enqueued' = [x \in Ids |->
             enqueued[x] + Cardinality({j \in Len(queue)..Len(s.queue) : s.queue[j].id = x})]
        /\ expanded' = [expanded EXCEPT ![Head(queue).id] = @ + 1]
        /\ inspections' = [i \in 1..Len(edges) |->
             inspections[i] + (IF i <= s.last THEN 1 ELSE 0)]
  /\ UNCHANGED << edges, nodeId, pc, depth, result, viewerVars, validatorVars, utilVars >>

\* The queue is empty: return visited.
Return ==
  /\ pc = "loop"
  /\ Len(queue) = 0
  /\ result' = visited
  /\ pc' = "done"
  /\ UNCHANGED << edges, nodeId, depth, visited, queue, enqueued, expanded, inspections >>
  /\ UNCHANGED << viewerVars, validatorVars, utilVars >>

\* A call that runs in one step and returns r.
OneStepCall(r, after) ==
  /\ pc = "idle"
  /\ result' = r
  /\ pc' = after
  /\ UNCHANGED << edges, nodeId, depth, visited, queue, enqueued, expanded, inspections >>
  /\ UNCHANGED << viewerVars, validatorVars, utilVars >>

\* getDirectNeighbors(nodeId, edges)
CallDirectNeighbors == OneStepCall(getDirectNeighbors(nodeId, edges), "doneDirect")

\* MiniGraph's effect: neighborhoodIds = getNeighborhood(focusNodeId, edges)
CallMiniGraph == OneStepCall(MiniGraph_getNeighborhood(nodeId, edges), "doneMini")

\* buildNodeNeighborhoodData(nodeId), up to its neighborIds set
CallNeighborhoodData == OneStepCall(neighborIds(nodeId, edges), "doneData")

Next ==
  \/ CallNeighborhood
  \/ Skip
  \/ Expand
  \/ Return
  \/ CallDirectNeighbors
  \/ CallMiniGraph
  \/ CallNeighborhoodData

Spec == Init /\ [][Next]_vars

\* The loop of a call runs on: the call is sequential code, nothing else is
\* scheduled between its iterations.
FairSpec == Spec /\ WF_vars(Skip) /\ WF_vars(Expand) /\ WF_vars(Return)

\* The caller makes its next call, with the same edge array and any id:
\* whatever the finished call left in its locals is still lying around.
Again ==
  /\ pc \in {"done", "doneDirect", "doneMini", "doneData"}
  /\ pc' = "idle"
  /\ nodeId' \in SmallIds
  /\ UNCHANGED << edges, depth, visited, queue, result, enqueued, expanded, inspections >>
  /\ UNCHANGED << viewerVars, validatorVars, utilVars >>

SeqNext ==
  \/ Next
  \/ Again

\* Calls one after the other.
SeqSpec == Init /\ [][SeqNext]_vars

\* ---------------------------------------------------------- viewer events

ViewerInit ==
  /\ \E es \in EdgeLists \cup {sampleEdges} : Idle(es, "a")
  /\ \E v \in Versions : Mounted(v, NodeIds)
  /\ NoContent
  /\ UtilOff

\* A state change re-runs the effect: the new elements replace the old.
Rerender(incl, foc, dep) ==
  /\ includeAffiliations' = incl
  /\ focusedNode' = foc
  /\ focusDepth' = dep
  /\ LET r == Render(version, nodes, edges, incl, foc, dep)
     IN elements' = r.elements /\ handed' = r.handed
  /\ pristine' = FALSE
  /\ UNCHANGED << edges, graphVars, version, nodes, validatorVars, utilVars >>

\* The "Include affiliations" checkbox: setIncludeAffiliations(e.target.checked)
ToggleAffiliations ==
  /\ version # "none"
  /\ Rerender(~includeAffiliations, focusedNode, focusDepth)

\* handleSelectNode: a search result, any node of the nodes prop, is chosen.
SelectNode ==
  /\ version = "focus"
  /\ \E n \in nodes : Rerender(includeAffiliations, n, focusDepth)

\* A single tap on a node element: setFocusedNode(nodeId) when the
\* double-click delay has passed.
TapNode ==
  /\ version = "focus"
  /\ \E n \in elements.nodes : Rerender(includeAffiliations, n, focusDepth)

\* clearFocus, the "Show All" button of the focus controls.
ClearFocus ==
  /\ version = "focus"
  /\ focusedNode # NoFocus
  /\ Rerender(includeAffiliations, NoFocus, focusDepth)

\* The depth select of the focus controls: setFocusDepth(Number(e.target.value))
SetDepth ==
  /\ version = "focus"
  /\ focusedNode # NoFocus
  /\ \E d \in DepthOptions : Rerender(includeAffiliations, focusedNode, d)

ViewerNext ==
  \/ ToggleAffiliations
  \/ SelectNode
  \/ TapNode
  \/ ClearFocus
  \/ SetDepth

ViewerSpec == ViewerInit /\ [][ViewerNext]_vars

\* ------------------------------------------------ validating and building

ValidatorInit ==
  /\ Idle(<< >>, "a")
  /\ Unmounted
  /\ \E c \in Contents : NotRun(c)
  /\ UtilOff

\* One run of the validation script: validate().
RunValidate ==
  /\ status = "none"
  /\ LET v == validate(content)
     IN /\ errors' = v.errors
        /\ warnings' = v.warnings
        /\ status' = v.status
  /\ UNCHANGED << edges, graphVars, viewerVars, utilVars, content, site, searchIndex >>

\* The site build calls loadAllEdges().
LoadAllEdges ==
  /\ ~site.built
  /\ site' = [built |-> TRUE, allEdges |-> loadAllEdges(content)]
  /\ UNCHANGED << edges, graphVars, viewerVars, utilVars, content, errors, warnings, status >>
  /\ UNCHANGED searchIndex

\* buildGraphData has awaited loadAllEdges() and buildSearchIndex().
BuildSearchIndex ==
  /\ site.built
  /\ ~searchIndex.built
  /\ searchIndex' = [built |-> TRUE, nodes |-> buildSearchIndex(content)]
  /\ UNCHANGED << edges, graphVars, viewerVars, utilVars, content, errors, warnings, status, site >>

ValidatorNext ==
  \/ RunValidate
  \/ LoadAllEdges
  \/ BuildSearchIndex

ValidatorSpec == ValidatorInit /\ [][ValidatorNext]_vars

\* ---------------------------------------------------- classifying labels

AllButClassify ==
  << edges, graphVars, viewerVars, validatorVars, sliderVars, tapVars, filterVars, progressVars >>

ClassifyInit ==
  /\ Idle(<< >>, "a")
  /\ Unmounted
  /\ NoContent
  /\ \E l \in Labels : HoldsLabel(l)
  /\ SliderOff
  /\ TapOff
  /\ FiltersOff
  /\ ProgressOff

\* getEdgeKind(edgeLabel)
CallGetEdgeKind ==
  /\ edgeKind = "none"
  /\ LET r == getEdgeKind(edgeLabel)
     IN /\ edgeKind' = r.kind
        /\ consoleWarnings' =
             IF r.warns THEN consoleWarnings \cup {edgeLabel} ELSE consoleWarnings
  /\ UNCHANGED << edgeLabel, AllButClassify >>

\* The caller goes on to its next label.
NextLabel ==
  /\ edgeKind # "none"
  /\ edgeLabel' \in Labels
  /\ edgeKind' = "none"
  /\ UNCHANGED << consoleWarnings, AllButClassify >>

ClassifyNext ==
  \/ CallGetEdgeKind
  \/ NextLabel

ClassifySpec == ClassifyInit /\ [][ClassifyNext]_vars

\* ------------------------------------------------------ moving the sliders

AllButSlider ==
  << edges, graphVars, viewerVars, validatorVars, classifyVars, tapVars, filterVars, progressVars >>

SliderInit ==
  /\ Idle(<< >>, "a")
  /\ Unmounted
  /\ NoContent
  /\ ClassifyOff
  /\ TapOff
  /\ FiltersOff
  /\ ProgressOff
  /\ \E v \in WellFormedRanges : SliderMounted(v)

\* handleChange(newValue): the local range is set and a timeout is started.
\* The function it returns, which would clear the timeout, is dropped by
\* every caller, so no timeout is ever cleared.
handleChange(newValue) ==
  /\ changes < MaxChanges
  /\ localValue' = newValue
  /\ timers' = Append(timers, [range |-> newValue, left |-> DEBOUNCE_MS])
  /\ lastChange' = newValue
  /\ sinceChange' = 0
  /\ changes' = changes + 1
  /\ bursts' = IF sinceChange >= DEBOUNCE_MS THEN bursts + 1 ELSE bursts
  /\ UNCHANGED << value, calls, AllButSlider >>

\* handleMinChange, from the min range input
MinSlider ==
  \E v \in SliderValues :
    /\ MinChangeAccepted(v, localValue)
    /\ handleChange(Range(v, localValue[2]))

\* handleMaxChange, from the max range input
MaxSlider ==
  \E v \in SliderValues :
    /\ MaxChangeAccepted(v, localValue)
    /\ handleChange(Range(localValue[1], v))

\* onChange of the first number input
MinInput ==
  \E t \in TypedValues :
    /\ MinInputAccepted(t, localValue)
    /\ handleChange(Range(t.n, localValue[2]))

\* onChange of the second number input
MaxInput ==
  \E t \in TypedValues :
    /\ MaxInputAccepted(t, localValue)
    /\ handleChange(Range(localValue[1], t.n))

\* handleReset
Reset == handleChange(Range(minYear, maxYear))

\* Time passes, as long as no timeout is due.
Tick ==
  /\ \A i \in 1..Len(timers) : timers[i].left > 0
  /\ timers # << >> \/ sinceChange < DEBOUNCE_MS
  /\ timers' = [i \in 1..Len(timers) |-> [timers[i] EXCEPT !.left = @ - TickMs]]
  /\ sinceChange' = IF sinceChange + TickMs >= DEBOUNCE_MS THEN DEBOUNCE_MS
                    ELSE sinceChange + TickMs
  /\ UNCHANGED << value, localValue, calls, lastChange, changes, bursts, AllButSlider >>

\* The oldest timeout fires: onChange(newValue).  The parent stores the range
\* and passes it back as the value prop, and the effect on [value] copies it
\* to the local range.
FireTimeout ==
  /\ timers # << >>
  /\ Head(timers).left <= 0
  /\ calls' = Append(calls, [range |-> Head(timers).range, latest |-> lastChange])
  /\ value' = Head(timers).range
  /\ localValue' = Head(timers).range
  /\ timers' = Tail(timers)
  /\ UNCHANGED << lastChange, sinceChange, changes, bursts, AllButSlider >>

SliderNext ==
  \/ MinSlider
  \/ MaxSlider
  \/ MinInput
  \/ MaxInput
  \/ Reset
  \/ Tick
  \/ FireTimeout

SliderSpec == SliderInit /\ [][SliderNext]_vars

\* ------------------------------------------------------- tapping the graph

AllButTap ==
  << edges, graphVars, validatorVars, classifyVars, sliderVars, filterVars, progressVars >>

\* The interactive viewer, mounted with the edges of the unit tests.
TapInit ==
  /\ \E es \in {sampleEdges, cyclicEdges} : Idle(es, "a")
  /\ Mounted("focus", NodeIds)
  /\ NoContent
  /\ UtilOff

\* The effect runs again after a state change: its cleanup has cleared the
\* pending timeout, and the new closure starts with clickTimeout = null.
RerunEffect(incl, foc, dep) ==
  /\ includeAffiliations' = incl
  /\ focusedNode' = foc
  /\ focusDepth' = dep
  /\ LET r == Render(version, nodes, edges, incl, foc, dep)
     IN elements' = r.elements /\ handed' = r.handed
  /\ pristine' = FALSE
  /\ clickTimeout' = NoTimeout
  /\ UNCHANGED << version, nodes, selectedEdge, navigation, AllButTap >>

\* cy.on('tap', 'node'): with a timeout pending the tap navigates to the
\* tapped node, otherwise it starts the timeout for the tapped node.
NodeTap ==
  /\ navigation = NoNavigation
  /\ \E n \in elements.nodes :
       /\ selectedEdge' = NoEdge
       /\ IF clickTimeout.set
          THEN /\ clickTimeout' = NoTimeout
               /\ navigation' = [to |-> n, first |-> clickTimeout.node,
                                 gap |-> DOUBLE_CLICK_DELAY - clickTimeout.left]
          ELSE /\ clickTimeout' = [set |-> TRUE, node |-> n, left |-> DOUBLE_CLICK_DELAY]
               /\ UNCHANGED navigation
  /\ UNCHANGED << viewerVars, AllButTap >>

\* Time passes while the timeout is pending and not due.
TapTick ==
  /\ navigation = NoNavigation
  /\ clickTimeout.set
  /\ clickTimeout.left > 0
  /\ clickTimeout' = [clickTimeout EXCEPT !.left = @ - TapTickMs]
  /\ UNCHANGED << selectedEdge, navigation, viewerVars, AllButTap >>

\* The timeout fires: clickTimeout = null; setFocusedNode(nodeId)
ClickTimeoutFires ==
  /\ navigation = NoNavigation
  /\ clickTimeout.set
  /\ clickTimeout.left <= 0
  /\ RerunEffect(includeAffiliations, clickTimeout.node, focusDepth)

\* cy.on('tap', 'edge'): the panel is shown when both ends are nodes.
EdgeTap ==
  /\ navigation = NoNavigation
  /\ \E i \in 1..Len(elements.edges) :
       /\ elements.edges[i].source \in nodes
       /\ elements.edges[i].target \in nodes
       /\ selectedEdge' = [sourceId |-> elements.edges[i].source,
                           targetId |-> elements.edges[i].target]
  /\ UNCHANGED << clickTimeout, navigation, viewerVars, AllButTap >>

\* cy.on('tap') on the background
BackgroundTap ==
  /\ navigation = NoNavigation
  /\ selectedEdge' = NoEdge
  /\ UNCHANGED << clickTimeout, navigation, viewerVars, AllButTap >>

\* The "Include affiliations" checkbox while the viewer takes taps.
CheckboxChange ==
  /\ navigation = NoNavigation
  /\ RerunEffect(~includeAffiliations, focusedNode, focusDepth)

TapNext ==
  \/ NodeTap
  \/ TapTick
  \/ ClickTimeoutFires
  \/ EdgeTap
  \/ BackgroundTap
  \/ CheckboxChange

TapSpec == TapInit /\ [][TapNext]_vars

\* ---------------------------------------------------- saving the filters

AllButFilters ==
  << edges, graphVars, viewerVars, validatorVars, classifyVars, sliderVars, tapVars, progressVars >>

FiltersInit ==
  /\ Idle(<< >>, "a")
  /\ Unmounted
  /\ NoContent
  /\ UtilOff

\* saveFilter(name, filters)
saveFilter ==
  /\ filtersSaved < MaxSaves
  /\ \E name \in {"saved"} :
       savedFilters' = WithNewFilter(NewFilter(filtersSaved + 1, name), savedFilters)
  /\ filtersSaved' = filtersSaved + 1
  /\ UNCHANGED << filtersUpdated, AllButFilters >>

\* deleteFilter(id), with an id that has been given out
deleteFilter ==
  /\ \E id \in 1..filtersSaved : savedFilters' = WithoutFilter(id, savedFilters)
  /\ UNCHANGED << filtersSaved, filtersUpdated, AllButFilters >>

\* updateFilter(id, updates): nothing is stored when the id is not found.
updateFilter ==
  /\ filtersUpdated < MaxUpdates
  /\ \E id \in 1..filtersSaved, name \in FilterNames :
       LET index == FindIndex(id, savedFilters)
       IN /\ index # 0
          /\ savedFilters' = [savedFilters EXCEPT ![index].name = name]
  /\ filtersUpdated' = filtersUpdated + 1
  /\ UNCHANGED << filtersSaved, AllButFilters >>

FiltersNext ==
  \/ saveFilter
  \/ deleteFilter
  \/ updateFilter

FiltersSpec == FiltersInit /\ [][FiltersNext]_vars

\* ------------------------------------------------------ reading the cards

AllButProgress ==
  << edges, graphVars, viewerVars, validatorVars, classifyVars, sliderVars, tapVars, filterVars >>

ProgressInit ==
  /\ Idle(<< >>, "a")
  /\ Unmounted
  /\ NoContent
  /\ ClassifyOff
  /\ SliderOff
  /\ TapOff
  /\ FiltersOff
  /\ \E ids \in CardIdLists, stored \in StoredProgress : ProgressRendered(ids, stored)

\* The effect on [packId]: setMounted(true) and the read cards are taken
\* from the stored entry of the pack.
LoadProgress ==
  /\ ~mounted
  /\ mounted' = TRUE
  /\ readCards' = ReadIn(packProgress)
  /\ UNCHANGED << cardIds, packProgress, AllButProgress >>

\* toggleCard(cardId), from the checkbox of one of the pack's cards
toggleCard ==
  /\ mounted
  /\ \E i \in 1..Len(cardIds) :
       LET cardId == cardIds[i]
           isRead == cardId \in readCards
       IN /\ readCards' = IF isRead THEN readCards \ {cardId} ELSE readCards \cup {cardId}
          /\ packProgress' = WithCard(packProgress, cardId, ~isRead)
  /\ UNCHANGED << cardIds, mounted, AllButProgress >>

ProgressNext ==
  \/ LoadProgress
  \/ toggleCard

ProgressSpec == ProgressInit /\ [][ProgressNext]_vars

\* ----------------------------------------------------- reference notions

\* x and y are the two endpoints of some edge, in either order.
Adjacent(x, y, es) ==
  \E i \in 1..Len(es) :
    \/ es[i].source = x /\ es[i].target = y
    \/ es[i].source = y /\ es[i].target = x

Neighbors(x, es) == {y \in Ids : Adjacent(x, y, es)}

Endpoints(es) == {es[i].source : i \in 1..Len(es)} \cup {es[i].target : i \in 1..Len(es)}

\* The ids connected to start by a walk of at most k edges, each edge usable
\* in either direction: a walk of at most k edges is a walk of at most k - 1
\* edges, or one of those followed by one more edge.
RECURSIVE WithinHops(_, _, _)
WithinHops(start, k, es) ==
  IF k = 0 THEN {start}
  ELSE LET B == WithinHops(start, k - 1, es)
       IN B \cup UNION {Neighbors(x, es) : x \in B}

\* The same, for walks that pass only through ids with a node record (the
\* start and the last id of the walk may be dangling).
RECURSIVE WithinHopsVia(_, _, _)
WithinHopsVia(start, k, es) ==
  IF k = 0 THEN {start}
  ELSE LET B == WithinHopsVia(start, k - 1, es)
       IN B \cup UNION {Neighbors(x, es) : x \in (B \cap NodeIds) \cup {start}}

\* The edge list with source and target exchanged in the edges at positions S.
SwapAt(es, S) ==
  [i \in 1..Len(es) |->
     IF i \in S THEN [es[i] EXCEPT !.source = es[i].target, !.target = es[i].source]
     ELSE es[i]]

\* The edge list with the same source/target pairs, the kinds ks, and another
\* label and year in every edge.
Reattributed(es, ks) ==
  [i \in 1..Len(es) |->
     [es[i] EXCEPT !.kind = ks[i],
                   !.label = IF es[i].label = NoLabel THEN "created" ELSE NoLabel,
                   !.year = 1970]]

Returned == pc = "done"

\* The permutations of 1..n, and the edge list read in the order p.
Perms(n) == {p \in [1..n -> 1..n] : \A i, j \in 1..n : p[i] = p[j] => i = j}

Permuted(es, p) == [i \in 1..Len(es) |-> es[p[i]]]

\* Two edges that join the same pair of ids, in either orientation.
SamePair(e, f) == {e.source, e.target} = {f.source, f.target}

\* The edge list without its edge at position j.
Without(es, j) == SubSeq(es, 1, j - 1) \o SubSeq(es, j + 1, Len(es))

\* The influence edges of an edge list.
InfluenceEdges(es) == SelectSeq(es, LAMBDA e : e.kind = "influence")

\* The ids joined to x by a walk of any length.
Reach(x, es) == WithinHops(x, Cardinality(Ids), es)

\* Some displayed edge is an affiliation edge.
AffiliationDisplayed ==
  \E i \in 1..Len(elements.edges) : elements.edges[i].kind = "affiliation"

\* The least number of edges of a walk from start to x, each edge usable in
\* either direction (x is joined to start).
Dist(start, x, es) ==
  CHOOSE k \in 0..Cardinality(Ids) :
    /\ x \in WithinHops(start, k, es)
    /\ k > 0 => x \notin WithinHops(start, k - 1, es)

\* The sum of f over the set S.
RECURSIVE SumOver(_, _)
SumOver(f, S) ==
  IF S = {} THEN 0
  ELSE LET x == CHOOSE y \in S : TRUE IN f[x] + SumOver(f, S \ {x})

\* ------------------------------------------------------------------ claims

\* C1: a getNeighborhood call returns exactly the start id plus every id
\* connected to it by a walk of at most maxHops edges, each edge usable in
\* either direction: nothing farther is included, nothing nearer is missing.
C1_ExactBall == Returned => result = WithinHops(nodeId, depth, edges)

\* The test's chain a->b->c->d plus a->e, two hops from a: d, three hops
\* away, is left out.
C1_Witness ==
  /\ Returned
  /\ edges = sampleEdges /\ nodeId = "a" /\ depth = 2
  /\ result = {"a", "b", "c", "e"}

\* C2: with maxHops = 0 the result is exactly {start}, whatever the edges.
C2_DepthZero == Returned /\ depth = 0 => result = {nodeId}

C2_Witness ==
  /\ Returned /\ depth = 0
  /\ nodeId \in Endpoints(edges)
  /\ result = {nodeId}

\* C3: the result for depth k is a subset of the result for depth k + 1 (and
\* contains the result for depth k - 1), so its size never decreases with k.
C3_Monotone ==
  Returned =>
    /\ result \subseteq getNeighborhood(nodeId, depth + 1, edges)
    /\ Cardinality(result) <= Cardinality(getNeighborhood(nodeId, depth + 1, edges))
    /\ depth > 0 => getNeighborhood(nodeId, depth - 1, edges) \subseteq result

\* A call whose result strictly grows with one more hop.
C3_Witness ==
  /\ Returned
  /\ depth >= 1
  /\ result # getNeighborhood(nodeId, depth + 1, edges)
  /\ result # getNeighborhood(nodeId, depth - 1, edges)

\* C4: every getNeighborhood call terminates, cycles and self-loops included,
\* and no id is put on the queue or expanded more than once in a call.
C4_Terminates ==
  /\ (pc = "loop") ~> Returned
  /\ [](\A x \in Ids : enqueued[x] <= 1 /\ expanded[x] <= 1)

\* The test's cycle a->b->c->a, searched deeper than its diameter.
C4_Witness ==
  /\ Returned
  /\ edges = cyclicEdges /\ nodeId = "a" /\ depth = MaxDepth
  /\ result = {"a", "b", "c"}
  /\ \A x \in result : enqueued[x] = 1

\* C5: getDirectNeighbors(id, edges) returns the set getNeighborhood(id, 1,
\* edges) returns.
C5_DirectIsOneHop == pc = "doneDirect" => result = getNeighborhood(nodeId, 1, edges)

\* A node with an incoming and an outgoing edge.
C5_Witness ==
  /\ pc = "doneDirect"
  /\ \E i, j \in 1..Len(edges) :
       /\ edges[i].source = nodeId /\ edges[i].target # nodeId
       /\ edges[j].target = nodeId /\ edges[j].source \notin {nodeId, edges[i].target}
  /\ Cardinality(result) = 3

\* C6: exchanging source and target in any subset of the edges leaves the
\* result of getNeighborhood unchanged.
C6_OrientationFree ==
  Returned =>
    \A S \in SUBSET (1..Len(edges)) :
      getNeighborhood(nodeId, depth, SwapAt(edges, S)) = result

\* From the middle of the test's chain both the predecessors and the
\* successor are reached.
C6_Witness ==
  /\ Returned
  /\ edges = sampleEdges /\ nodeId = "c" /\ depth = 2
  /\ {"a", "b", "d"} \subseteq result

\* C7: edge lists that agree on every edge's source and target, and differ in
\* kind, label and year, give the same result.
C7_AttributesIgnored ==
  Returned =>
    \A ks \in [1..Len(edges) -> Kinds] :
      getNeighborhood(nodeId, depth, Reattributed(edges, ks)) = result

\* A call that reached an id over an affiliation edge.
C7_Witness ==
  /\ Returned
  /\ \E i \in 1..Len(edges) :
       /\ edges[i].kind = "affiliation"
       /\ edges[i].source = nodeId
       /\ edges[i].target # nodeId
       /\ edges[i].target \in result

\* C8: when the start id is an endpoint of no edge (the empty list included)
\* the result is {start} for every depth.
C8_Isolated == Returned /\ nodeId \notin Endpoints(edges) => result = {nodeId}

\* The test's isolated id z, two hops allowed, over the sample edges.
C8_Witness ==
  /\ Returned
  /\ edges = sampleEdges /\ nodeId = "z" /\ depth = 2
  /\ result = {"z"}

\* C9: a call has no error outcome: while it runs it always has a next step,
\* it returns with nothing left pending, and an endpoint without a node
\* record that lies within the hop bound is a member of the result.
C9_NoErrorOutcome ==
  /\ pc = "loop" => ENABLED (Skip \/ Expand \/ Return)
  /\ Returned =>
       /\ queue = << >>
       /\ \A x \in WithinHops(nodeId, depth, edges) \ NodeIds : x \in result

\* A call from an id with a record that returned the dangling id.
C9_Witness ==
  /\ Returned
  /\ nodeId \in NodeIds
  /\ "z" \in result

\* C10 as stated: ids connected to the start only by walks that pass through
\* an id without a node record are not added to the result.
C10_Original == Returned => result \subseteq WithinHopsVia(nodeId, depth, edges)

\* C10, amended: node records play no part: an id without a node record that
\* lies fewer than maxHops hops from the start is expanded like any other
\* id, so all its neighbours are in the result.
C10_DanglingExpanded ==
  Returned /\ depth > 0 =>
    \A x \in WithinHops(nodeId, depth - 1, edges) \ NodeIds :
      Neighbors(x, edges) \subseteq result

\* A call that reached an id only through the dangling id.
C10_Witness ==
  /\ Returned
  /\ nodeId \in NodeIds
  /\ "z" \in result
  /\ \E y \in result : y \notin WithinHopsVia(nodeId, depth, edges)

\* C11: getNeighborhood and getDirectNeighbors are pure.  No step of a call
\* changes the edge array or an edge record; every getNeighborhood call
\* starts from a new visited set and a new queue holding the start id only;
\* and a call made after other calls returns what it returns when made alone.
C11_Pure ==
  /\ [][edges' = edges]_vars
  /\ [][pc = "idle" /\ pc' = "loop" =>
          visited' = {nodeId} /\ queue' = << [id |-> nodeId, d |-> 0] >>]_vars
  /\ [](Returned => result = getNeighborhood(nodeId, depth, edges))
  /\ [](pc = "doneDirect" => result = {nodeId} \cup Neighbors(nodeId, edges))

\* A second getNeighborhood call has been entered while the set the call
\* before it returned, with other ids in it, is still around.
C11_Witness ==
  /\ pc = "loop"
  /\ result # {} /\ result # {nodeId}
  /\ visited = {nodeId}
  /\ Len(edges) > 0

\* C12: the result of getNeighborhood does not depend on the order of the
\* edge list, nor on how many edges join a pair of ids: every permutation of
\* the list, the list with one more edge between an already joined pair, and
\* the list with one of two parallel edges removed all give the same set.
C12_OrderAndMultiplicity ==
  Returned =>
    /\ \A p \in Perms(Len(edges)) :
         getNeighborhood(nodeId, depth, Permuted(edges, p)) = result
    /\ \A i \in 1..Len(edges), k \in Kinds :
         /\ getNeighborhood(nodeId, depth,
              Append(edges, Edge(edges[i].source, edges[i].target, k, NoLabel))) = result
         /\ getNeighborhood(nodeId, depth,
              << Edge(edges[i].target, edges[i].source, k, NoLabel) >> \o edges) = result
    /\ \A i, j \in 1..Len(edges) :
         i # j /\ SamePair(edges[i], edges[j]) =>
           getNeighborhood(nodeId, depth, Without(edges, j)) = result

\* A call over two different parallel edges at the start id.
C12_Witness ==
  /\ Returned /\ depth >= 1
  /\ Len(edges) = 2
  /\ edges[1] # edges[2]
  /\ SamePair(edges[1], edges[2])
  /\ nodeId \in {edges[1].source, edges[1].target}
  /\ Cardinality(result) = 2

\* C13 as stated: in one call each edge is looked at no more than a fixed
\* number of times, however many ids are reached (twice: once from either
\* endpoint), so that the looks add up to at most twice the number of edges.
C13_Original ==
  Returned =>
    /\ \A i \in 1..Len(edges) : inspections[i] <= 2
    /\ SumOver(inspections, 1..Len(edges)) <= 2 * Len(edges)

\* C13, amended: the loop scans the whole edge list for every id it expands,
\* so each edge is looked at exactly once per expanded id, which is at most
\* once per id reached: the looks add up to the number of edges times the
\* number of expanded ids.
C13_OncePerExpandedId ==
  /\ \A i \in 1..Len(edges) :
       /\ inspections[i] = SumOver(expanded, Ids)
       /\ inspections[i] <= Cardinality(visited)
  /\ SumOver(inspections, 1..Len(edges)) = Len(edges) * SumOver(expanded, Ids)

\* The test's sample graph searched three hops from a: a, b, c and e are
\* expanded, and every one of the four edges is looked at four times.
C13_Witness ==
  /\ Returned
  /\ edges = sampleEdges /\ nodeId = "a" /\ depth = 3
  /\ \A i \in 1..Len(edges) : inspections[i] = 4

\* C18: the id set MiniGraph computes for its focus node, and the neighbor
\* id set of buildNodeNeighborhoodData, are both the set getNeighborhood(id,
\* 1, edges) returns.
C18_OneHopCopies ==
  /\ pc = "doneMini" => result = getNeighborhood(nodeId, 1, edges)
  /\ pc = "doneData" => result = getNeighborhood(nodeId, 1, edges)

\* MiniGraph's set for a node with an incoming edge, an outgoing edge and an
\* edge that does not touch it.
C18_Witness ==
  /\ pc = "doneMini"
  /\ edges = sampleEdges /\ nodeId = "b"
  /\ result = {"a", "b", "c"}

\* C14 as stated: with the toggle off the edge list handed to the
\* neighborhood computation holds influence edges only, so that while a node
\* is focused no displayed node is connected to it through affiliation edges
\* only, after any sequence of toggle, focus and depth events.
C14_Original ==
  version = "focus" /\ ~includeAffiliations =>
    /\ \A k \in 1..Len(handed) : \A i \in 1..Len(handed[k]) : handed[k][i].kind = "influence"
    /\ focusedNode # NoFocus =>
         \A n \in elements.nodes :
           ~(n \in Reach(focusedNode, edges) /\ n \notin Reach(focusedNode, InfluenceEdges(edges)))

\* C14, amended: with the toggle off the edge list handed to the
\* neighborhood computation holds influence edges only, and whenever the
\* neighborhood is computed every displayed node is within focusDepth
\* influence hops of the focused node.  The neighborhood is computed only
\* when the focused node is an endpoint of an influence edge: when it is
\* not, the viewer displays every node that has an influence edge.
C14_FilterBeforeTraversal ==
  version = "focus" /\ ~includeAffiliations =>
    /\ \A k \in 1..Len(handed) : \A i \in 1..Len(handed[k]) : handed[k][i].kind = "influence"
    /\ handed # << >> =>
         /\ focusedNode # NoFocus
         /\ elements.nodes \subseteq
              WithinHops(focusedNode, focusDepth, InfluenceEdges(edges))
    /\ focusedNode # NoFocus /\ handed = << >> =>
         /\ focusedNode \notin Endpoints(InfluenceEdges(edges))
         /\ elements.nodes = nodes \cap Endpoints(InfluenceEdges(edges))

\* The focused node has an influence edge, and an affiliation edge to a node
\* that is not displayed.
C14_Witness ==
  /\ version = "focus" /\ ~includeAffiliations
  /\ focusedNode # NoFocus /\ handed # << >>
  /\ Cardinality(elements.nodes) >= 2
  /\ \E i \in 1..Len(edges) :
       /\ edges[i].kind = "affiliation"
       /\ edges[i].source = focusedNode
       /\ edges[i].target \in nodes \ elements.nodes

\* C15: in every viewer state, dangling endpoints in the edge list
\* included, every rendered node has a node record and every rendered edge
\* has its source and its target among the rendered nodes.
C15_Reconciled ==
  version # "none" =>
    /\ elements.nodes \subseteq nodes
    /\ \A i \in 1..Len(elements.edges) :
         /\ elements.edges[i].source \in elements.nodes
         /\ elements.edges[i].target \in elements.nodes

\* C16 as stated: whenever a node is focused, the displayed nodes are
\* exactly the nodes with a record in getNeighborhood(focusedNode,
\* focusDepth, filteredEdges).
C16_Original ==
  version = "focus" /\ focusedNode # NoFocus =>
    elements.nodes =
      nodes \cap getNeighborhood(focusedNode, focusDepth, filteredEdges(includeAffiliations, edges))

\* C16, amended: whenever a node is focused that is an endpoint of some
\* filtered edge, the displayed nodes are exactly the nodes with a record in
\* getNeighborhood(focusedNode, focusDepth, filteredEdges), and the displayed
\* edges are the filtered edges between them; when the focused node is an
\* endpoint of no filtered edge the display is that of no focus: every node
\* with a filtered edge.
C16_FocusIsNeighborhood ==
  version = "focus" /\ focusedNode # NoFocus =>
    LET fe == filteredEdges(includeAffiliations, edges)
        nh == getNeighborhood(focusedNode, focusDepth, fe)
    IN /\ focusedNode \in Endpoints(fe) =>
            /\ elements.nodes = nodes \cap nh
            /\ elements.edges =
                 SelectSeq(fe, LAMBDA e : e.source \in nodes \cap nh /\ e.target \in nodes \cap nh)
       /\ focusedNode \notin Endpoints(fe) =>
            elements.nodes = nodes \cap Endpoints(fe)

\* A focus that hides a connected node which a greater depth would show.
C16_Witness ==
  /\ version = "focus" /\ focusedNode # NoFocus
  /\ focusedNode \in elements.nodes
  /\ focusDepth = 1
  /\ \E n \in nodes \ elements.nodes :
       n \in getNeighborhood(focusedNode, 2, filteredEdges(includeAffiliations, edges))

\* C17: focusDepth is always an integer from FOCUS_DEPTH.MIN to
\* FOCUS_DEPTH.MAX, and is the default until an event changes it.
C17_DepthInRange ==
  /\ focusDepth \in FOCUS_DEPTH_MIN..FOCUS_DEPTH_MAX
  /\ pristine => focusDepth = FOCUS_DEPTH_DEFAULT

\* The depth select has been set to the maximum while a node is focused.
C17_Witness ==
  /\ version = "focus"
  /\ focusedNode # NoFocus
  /\ focusDepth = FOCUS_DEPTH_MAX

\* C19: the default view is influence only: in the initial viewer state no
\* affiliation edge is displayed, and one is displayed only while the
\* affiliation toggle is on.
C19_DefaultInfluenceOnly ==
  version # "none" =>
    /\ pristine => ~AffiliationDisplayed
    /\ AffiliationDisplayed => includeAffiliations

\* C20: when the validator reports 'Validation PASSED', every edge that
\* loadAllEdges produces from the same content (people, works, institutions
\* and packs) has a source and a target that are ids of existing nodes.
C20_PassedMeansResolved ==
  status = "PASSED" /\ site.built =>
    \A i \in 1..Len(site.allEdges) :
      /\ site.allEdges[i].source \in collectNodeIds(content)
      /\ site.allEdges[i].target \in collectNodeIds(content)

\* C21: orphaned nodes are warnings only.  Every node that is an endpoint of
\* no edge is among the warnings and adds no error; the run fails, with exit
\* status 1, exactly when an error was recorded, which is exactly when some
\* inline edge target or pack card is not a node id; so a run whose only
\* findings are orphan warnings passes.
C21_OrphansOnlyWarn ==
  status # "none" =>
    LET nodeIds == collectNodeIds(content)
        all == loadAllEdges(content)
        files == FilesIn(content, LoadedCollections)
        badRef == \E i \in 1..Len(files) :
                    \/ \E j \in 1..Len(files[i].edges) : files[i].edges[j].target \notin nodeIds
                    \/ \E j \in 1..Len(files[i].cards) : files[i].cards[j] \notin nodeIds
    IN /\ \A n \in nodeIds : n \notin Endpoints(all) => n \in warnings
       /\ Len(errors) > 0 <=> badRef
       /\ status = "FAILED" <=> Len(errors) > 0
       /\ ExitStatus(status) = 1 <=> Len(errors) > 0
       /\ Len(errors) = 0 /\ warnings # {} => status = "PASSED" /\ ExitStatus(status) = 0

\* A run over two nodes, one of them orphaned, that passed.
C21_Witness ==
  /\ status = "PASSED"
  /\ Cardinality(collectNodeIds(content)) = 2
  /\ Cardinality(warnings) = 1
  /\ Len(collectAllEdges(content)) > 0

\* C22: for content that passes validation, buildSearchIndex returns no two
\* nodes with the same id, also when entries of different collections carry
\* the same id.
C22_UniqueNodeIds ==
  status = "PASSED" /\ searchIndex.built =>
    \A i, j \in 1..Len(searchIndex.nodes) :
      searchIndex.nodes[i].id = searchIndex.nodes[j].id => i = j

\* C29: the getNeighborhood inlined in the InfluenceGraph component returns
\* the set getNeighborhood of lib/graph returns, for every id, depth >= 0
\* and edge list.
C29_InlineCopyAgrees ==
  Returned => IG_getNeighborhood(nodeId, depth, edges) = result

\* A library call that went two levels deep and reached three ids or more.
C29_Witness ==
  /\ Returned
  /\ depth >= 2
  /\ Cardinality(result) >= 3
  /\ result # getNeighborhood(nodeId, 1, edges)
  /\ IG_getNeighborhood(nodeId, depth, edges) = result

\* C30: in every state of a getNeighborhood call the depth recorded with
\* each queued id is that id's shortest hop distance from the start, edges
\* taken in either direction, and is at most maxHops; and the edges are
\* never scanned for an item whose depth is maxHops.
C30_Levels ==
  /\ [](pc = "loop" =>
         \A j \in 1..Len(queue) :
           /\ queue[j].d = Dist(nodeId, queue[j].id, edges)
           /\ queue[j].d <= depth)
  /\ [][expanded' # expanded => Head(queue).d < depth]_vars

\* A call in which an id two hops away waits on the queue at the limit.
C30_Witness ==
  /\ pc = "loop"
  /\ depth = 2
  /\ Len(queue) >= 1
  /\ Head(queue).d = depth
  /\ Head(queue).id \notin Neighbors(nodeId, edges) \cup {nodeId}

\* C23: getEdgeKind is a total classification.  For every string it returns
\* a kind: 'affiliation' exactly for the six weak labels, 'influence' for
\* the seven strong labels and for every other string, the empty string and
\* wrong-case variants such as 'INFLUENCE' included.
C23_TotalClassification ==
  /\ ENABLED CallGetEdgeKind \/ edgeKind \in Kinds
  /\ edgeKind # "none" =>
       /\ edgeKind = "affiliation" <=>
            edgeLabel \in {"studied at", "worked at", "professor at", "fellow at",
                           "founded", "funded_by"}
       /\ edgeKind = "influence" <=>
            edgeLabel \notin {"studied at", "worked at", "professor at", "fellow at",
                              "founded", "funded_by"}

\* The wrong-case label 'INFLUENCE' has been classified, with a warning.
C23_Witness ==
  /\ edgeLabel = "INFLUENCE"
  /\ edgeKind = "influence"
  /\ "INFLUENCE" \in consoleWarnings

\* C25: EraSlider's onChange is debounced: changes that follow one another
\* by less than 150 ms lead to one call of the parent's onChange, so there
\* are never more calls than runs of such changes, and every call passes the
\* latest change.
C25_Debounced ==
  /\ Len(calls) <= bursts
  /\ \A i \in 1..Len(calls) : calls[i].range = calls[i].latest

\* C26: with a value prop that satisfies minYear <= value[0] <= value[1] <=
\* maxYear, after any sequence of slider, number-input and reset events the
\* local range, the value prop and every range passed to onChange satisfy
\* minYear <= min <= max <= maxYear.
C26_RangeWellFormed ==
  /\ WellFormed(localValue)
  /\ WellFormed(value)
  /\ \A i \in 1..Len(calls) : WellFormed(calls[i].range)
  /\ \A i \in 1..Len(timers) : WellFormed(timers[i].range)

\* Both thumbs have been moved until they met, and both moves have reached
\* the parent.
C26_Witness ==
  /\ Len(calls) >= 2
  /\ calls[1].range # calls[2].range
  /\ localValue[1] = localValue[2]
  /\ minYear < localValue[1] /\ localValue[2] < maxYear
  /\ timers = << >>

\* C24: the viewer navigates to a node's page only on a double-click on that
\* node: whenever it has navigated, the tap that navigated and the tap before
\* it were on the same node and no more than the 250 ms delay apart; a tap on
\* X followed within the delay by a tap on another node Y does not navigate.
C24_DoubleClickSameNode ==
  navigation # NoNavigation =>
    /\ navigation.first = navigation.to
    /\ navigation.gap <= DOUBLE_CLICK_DELAY

\* C27: from empty storage, after any sequence of saveFilter, deleteFilter
\* and updateFilter calls the stored list has at most 10 entries, the more
\* recently saved before the less recently saved, and a save onto a full
\* list puts the new filter first and drops exactly the last entry.
C27_BoundedRecentFirst ==
  /\ [](/\ Len(savedFilters) <= MAX_SAVED_FILTERS
        /\ \A i, j \in 1..Len(savedFilters) :
             i < j => savedFilters[i].id > savedFilters[j].id)
  /\ [][(filtersSaved' # filtersSaved /\ Len(savedFilters) = MAX_SAVED_FILTERS) =>
          /\ Len(savedFilters') = MAX_SAVED_FILTERS
          /\ savedFilters'[1].id = filtersSaved'
          /\ Tail(savedFilters') = SubSeq(savedFilters, 1, MAX_SAVED_FILTERS - 1)]_vars

\* The eleventh filter has been saved onto the full list of the first ten,
\* one of them renamed: the first one saved is gone, the other ten are kept
\* in order.
C27_Witness ==
  /\ filtersSaved = MAX_SAVED_FILTERS + 1
  /\ filtersUpdated = 1
  /\ Len(savedFilters) = MAX_SAVED_FILTERS
  /\ savedFilters[1].id = MAX_SAVED_FILTERS + 1
  /\ savedFilters[MAX_SAVED_FILTERS].id = 2
  /\ \E i \in 2..Len(savedFilters) : savedFilters[i].name = "renamed"

\* C28: for any progress stored for the pack and any sequence of toggleCard
\* calls on the pack's card ids, 0 <= completedCount <= totalCount and the
\* progress percentage is within 0..100.
C28_ProgressWithinPack ==
  /\ 0 <= completedCount /\ completedCount <= totalCount
  /\ 0 <= progressPercent /\ progressPercent <= 100

====
